---- MODULE Spec2Model ----
(***************************************************************************)
(* Wallet ledger of paystack_wallet: wallets, transactions, the deposit    *)
(* confirmation (webhook) path and the two-party transfer path, run by     *)
(* concurrent request sessions against one PostgreSQL store (READ          *)
(* COMMITTED, SELECT ... FOR UPDATE row locks, SQLAlchemy ORM sessions).   *)
(***************************************************************************)
EXTENDS Integers, FiniteSets, Sequences, TLC

\* ------------------------------------------------------------------ bounds
NumUsers == 2
NumSessions == 2
MaxAmount == 2
MaxDepositAmount == 1
MaxDeposits == 2
MaxTx == 4
MaxTime == 1
MaxKeys == 2
MaxCeilingKeys == 7
RandomLen == 9
MaxIdentities == 2

Users == 1..NumUsers
Wallets == Users
Sessions == 1..NumSessions
Amounts == (0 - 1)..MaxAmount
DepositAmounts == (0 - 1)..MaxDepositAmount
\* The confirmed amounts an event carries: a deposit's amount and a larger one.
ConfirmedAmounts == 1..(MaxDepositAmount + 1)
RefSuffixes == 1..(MaxTx + 2 * NumSessions + 1)

\* ------------------------------------------------------------ program data
\* An optional value: Null is Python's None, Some(x) a value that is present.
Null == <<>>
Some(x) == <<x>>

\* models.py: the enums
PENDING == "pending"
SUCCESS == "success"
FAILED == "failed"
DEPOSIT == "deposit"
TRANSFER == "transfer"
ApiKeyPermissions == {"deposit", "transfer", "read"}

\* A SELECT yields the set of rows it matches; scalar_one_or_none() is that
\* set, empty for None.
\* One wallet per user (Wallet.user_id is unique): the wallet of user u is
\* wallet u, and its wallet_number is a string of its own.
wallet_number(w) == <<"wn", w>>
NoSuchNumber == <<"wn", 0>>
WalletNumbers == {wallet_number(w) : w \in Wallets} \cup {NoSuchNumber}
WalletByUser(u) == {w \in Wallets : w = u}
WalletByNumber(n) == {w \in Wallets : wallet_number(w) = n}
WalletById(w) == {x \in Wallets : x = w}

\* A reference is its prefix tag and its random suffix: f"dep_{uuid4().hex}".
DepRef(n) == <<"dep_", n>>
XferRef(n) == <<"xfer_", n>>
References == {DepRef(n) : n \in RefSuffixes} \cup {XferRef(n) : n \in RefSuffixes}
startswith(ref, prefix) == ref[1] = prefix

\* uuid4(): a value no row carries yet or, however unlikely, one that a row
\* already carries. Every value not yet in use behaves alike, so the least
\* stands for them.
Min(S) == CHOOSE x \in S : \A y \in S : x <= y
uuid4(used) ==
  used \cup (IF RefSuffixes \ used = {} THEN {} ELSE {Min(RefSuffixes \ used)})
\* The suffixes in use among the rows' references with one prefix.
Suffixes(rows, prefix) == {t.ref[2] : t \in {r \in rows : r.ref[1] = prefix}}

\* The permission sets a resolved credential can carry: a bearer token grants
\* all of them, an API key its own subset.
PermSets == {ApiKeyPermissions, {"read"}}

\* HMAC-SHA512 of the body under a key: two of them are equal exactly when
\* key and body are. A variant of it that does not depend on the key.
WebhookSecret == "whsec"
WrongSecret == "other"
Hmac_KeyBlind(key, body) == <<"any", body>>
Hmac(key, body) == <<key, body>>
Events == {"charge.success", "charge.failed"}
\* The references worth delivering: that of each row, one of each prefix that
\* no row carries, and none.
WebhookReferences(rows) ==
  {t.ref : t \in rows} \cup {Null}
    \cup {<<p, Min(RefSuffixes \ {t.ref[2] : t \in rows})>> : p \in {"dep_", "xfer_"}}
\* The X-Paystack-Signature header of a delivery: absent, the HMAC of the body
\* under the webhook secret, or under another secret.
Header(kind, body) ==
  IF kind = "absent" THEN Null
  ELSE IF kind = "good" THEN Hmac(WebhookSecret, body)
  ELSE Hmac(WrongSecret, body)
HeaderKinds == {"absent", "good", "wrong"}

VARIABLES
  balance,   \* committed Wallet.balance of every wallet row
  txs,       \* committed rows of the transactions table
  nextId,    \* the rows created so far, plus one: the next row's primary key
  lock,      \* FOR UPDATE row lock of each wallet: the session holding it, or 0
  now,       \* the clock read by datetime.now
  pc,        \* where each session's request handler is
  req,       \* the request each session is serving
  loc,       \* each session's ORM objects: what it loaded and what it staged
  last,      \* the response the latest step returned, with the request it answers
  keys,      \* committed rows of the api_keys table
  nextKey,   \* the API keys created so far, plus one: the next key's primary key
  users,     \* committed rows of the users table
  wallets    \* committed rows of the wallets table (the balance column is balance)

vars == <<balance, txs, nextId, lock, now, pc, req, loc, last, keys, nextKey, users, wallets>>
accountVars == <<users, wallets>>
ledgerVars == <<balance, txs, nextId, lock>>
keyVars == <<keys, nextKey>>

NoReq ==
  [op |-> "none", user |-> 0, amount |-> 0, ref |-> Null, to |-> Null, event |-> Null,
   sig |-> Null, bearer |-> Null, key |-> Null, perms |-> {}, name |-> Null,
   expiry |-> 0, detail |-> Null, google_id |-> Null, email |-> Null]
NoLoc == [tx |-> {}, sender |-> {}, recipient |-> {}, rows |-> {}, user |-> {}]
NoResp == [req |-> NoReq, kind |-> "none"]

TxByRef(ref) == {t \in txs : t.ref = ref}
\* The unique index on transactions.reference: an INSERT of a reference that a
\* row carries is rejected. A variant without the index.
UniqueViolation_NoIndex(rows, reference) == FALSE
UniqueViolation(rows, reference) == \E t \in rows : t.ref = reference
TxById(id) == {t \in txs : t.id = id}
The(rows) == CHOOSE r \in rows : TRUE

\* models.py User and Wallet: the columns the handlers use. Every user of the
\* ledger has signed in: user u is Google identity u with an e-mail of its own.
UserRow(id, google_id, email) == [id |-> id, google_id |-> google_id, email |-> email]
WalletRow(id, user_id, number) == [id |-> id, user_id |-> user_id, wallet_number |-> number]

Init ==
  /\ balance = [w \in Wallets |-> 0]
  /\ txs = {}
  /\ nextId = 1
  /\ lock = [w \in Wallets |-> 0]
  /\ now = 0
  /\ pc = [s \in Sessions |-> "idle"]
  /\ req = [s \in Sessions |-> NoReq]
  /\ loc = [s \in Sessions |-> NoLoc]
  /\ last = NoResp
  /\ keys = {}
  /\ nextKey = 1
  /\ users = {UserRow(u, u, u) : u \in Users}
  /\ wallets = {WalletRow(w, w, wallet_number(w)) : w \in Wallets}

\* ---------------------------------------------------------------- helpers
DepositReq(u, amount, reference) ==
  [NoReq EXCEPT !.op = "deposit", !.user = u, !.amount = amount, !.ref = reference]
\* A validly signed delivery, and a delivery under any signature header. The
\* confirmed amount of the event is kept with the request where the credit is
\* made, the only place that could use it.
WebhookReq(event, reference) ==
  [NoReq EXCEPT !.op = "webhook", !.ref = reference, !.event = Some(event),
                !.sig = Some("good")]
Delivery(event, reference, header) ==
  [WebhookReq(event, reference) EXCEPT !.sig = Some(header)]
\* The validly signed charge.success deliveries for a reference.
Confirmations(reference) ==
  {[WebhookReq("charge.success", reference) EXCEPT !.amount = paid] :
     paid \in {0} \cup ConfirmedAmounts}
\* What a response to a request refused before the handler looked at its body
\* answers: the operation and the caller.
Refused(op, u) == [NoReq EXCEPT !.op = op, !.user = u]
TransferReq(u, amount, to) ==
  [NoReq EXCEPT !.op = "transfer", !.user = u, !.amount = amount, !.to = to]

\* The test of a requested amount: schemas.py Field(gt=0) on the request body,
\* which is validated once the credentials are resolved and before the handler
\* runs, and the handlers' own `amount <= 0`. A variant that lets zero and
\* negative amounts through.
InvalidAmount_Unchecked(amount) == FALSE
InvalidAmount(amount) == amount <= 0

\* auth_utils.check_permission
check_permission(required, permissions) == required \in permissions

\* The ownership filter of a lookup (Transaction.user_id == current_user.id,
\* ApiKey.user_id == current_user.id). A variant that lets every caller through.
OwnedBy_Anyone(owner, u) == TRUE
OwnedBy(owner, u) == owner = u

\* A request ends: the response is returned and the session is closed, which
\* ends its database transaction and releases every row lock it holds.
Finish(s, request, kind) ==
  /\ pc' = [pc EXCEPT ![s] = "idle"]
  /\ req' = [req EXCEPT ![s] = NoReq]
  /\ loc' = [loc EXCEPT ![s] = NoLoc]
  /\ lock' = [w \in Wallets |-> IF lock[w] = s THEN 0 ELSE lock[w]]
  /\ last' = [req |-> request, kind |-> kind]

\* A response is delivered before the next step is taken: last holds it for
\* that one state only.
Deliver ==
  /\ last # NoResp
  /\ last' = NoResp
  /\ UNCHANGED <<balance, txs, nextId, lock, now, pc, req, loc, keys, nextKey>>
  /\ UNCHANGED accountVars

Tick ==
  /\ last = NoResp
  /\ UNCHANGED accountVars
  /\ UNCHANGED keyVars
  /\ now < MaxTime
  /\ now' = now + 1
  /\ last' = NoResp
  /\ UNCHANGED <<balance, txs, nextId, lock, pc, req, loc>>

\* ------------------------------------------------- deposit initiation
\* routers/wallet.py initiate_wallet_deposit, up to the first commit: the
\* permission check, the wallet lookup, the amount check, the fresh reference
\* and the insert of the PENDING row (the unique index on reference rejects
\* a duplicate).
NewDeposit(id, u, amount, reference) ==
  [id |-> id, ref |-> reference, wallet |-> The(WalletByUser(u)), user |-> u,
   type |-> DEPOSIT, amount |-> amount, status |-> PENDING, paid_at |-> Null,
   description |-> <<"Wallet deposit via Paystack">>]

InitiateDeposit(s, u, perms, amount, n) ==
  /\ last = NoResp
  /\ UNCHANGED accountVars
  /\ UNCHANGED keyVars
  /\ pc[s] = "idle"
  /\ n \in uuid4(Suffixes(txs, "dep_"))
  /\ UNCHANGED <<balance, now>>
  /\ IF InvalidAmount(amount)
     THEN Finish(s, DepositReq(u, amount, Null), "InvalidAmount") /\ UNCHANGED <<txs, nextId>>
     ELSE IF ~check_permission("deposit", perms)
     THEN Finish(s, [Refused("deposit", u) EXCEPT !.amount = amount], "Forbidden")
          /\ UNCHANGED <<txs, nextId>>
     ELSE IF WalletByUser(u) = {}
     THEN Finish(s, DepositReq(u, amount, Null), "NotFound") /\ UNCHANGED <<txs, nextId>>
     ELSE IF InvalidAmount(amount)
     THEN Finish(s, DepositReq(u, amount, Null), "InvalidAmount") /\ UNCHANGED <<txs, nextId>>
     ELSE IF UniqueViolation(txs, DepRef(n))
     THEN Finish(s, DepositReq(u, amount, DepRef(n)), "StoreUnavailable")
          /\ UNCHANGED <<txs, nextId>>
     ELSE /\ nextId <= MaxDeposits
          /\ txs' = txs \cup {NewDeposit(nextId, u, amount, DepRef(n))}
          /\ nextId' = nextId + 1
          /\ pc' = [pc EXCEPT ![s] = "gateway"]
          /\ req' = [req EXCEPT ![s] = DepositReq(u, amount, DepRef(n))]
          /\ loc' = [loc EXCEPT ![s] =
               [NoLoc EXCEPT !.tx = {NewDeposit(nextId, u, amount, DepRef(n))}]]
          /\ last' = NoResp
          /\ UNCHANGED lock

\* initiate_wallet_deposit after the gateway answered: a non-200 answer deletes
\* the row, a 200 answer with a false status raises and leaves it, a good
\* answer stores the authorization URL: an UPDATE of that column alone, which
\* no operation reads and the rows here do not carry.
GatewayOutcomes == {"ok", "http_error", "status_false"}
\* Lines 134-136: the UPDATE writes the one attribute that was set on the
\* object, so the row keeps what others committed meanwhile. A variant that
\* writes the whole object back as it was loaded.
AuthorizationUrlUpdate_WholeObject(row, loaded) == loaded
AuthorizationUrlUpdate(row, loaded) == row

DepositGateway(s, outcome) ==
  /\ last = NoResp
  /\ UNCHANGED accountVars
  /\ UNCHANGED keyVars
  /\ pc[s] = "gateway"
  /\ LET row == TxById(The(loc[s].tx).id)
     IN IF row = {}
        THEN Finish(s, req[s], "StoreUnavailable") /\ UNCHANGED txs
        ELSE IF outcome = "http_error"
        THEN txs' = txs \ row /\ Finish(s, req[s], "GatewayUnavailable")
        ELSE IF outcome = "status_false"
        THEN UNCHANGED txs /\ Finish(s, req[s], "GatewayUnavailable")
        ELSE /\ txs' = (txs \ row) \cup {AuthorizationUrlUpdate(The(row), The(loc[s].tx))}
             /\ Finish(s, req[s], "ok")
  /\ UNCHANGED <<balance, nextId, now>>

\* ------------------------------------------------- deposit confirmation
\* paystack_webhook line 183: only a transaction still PENDING is credited.
\* A variant of it that does not look at what the lookup found.
StillPending_Unlooked(found) == TRUE
StillPending(found) == \E transaction \in found : transaction.status = PENDING

\* credit_wallet lines 23-24: the transaction of a wallet that is not there.
\* A variant that leaves the row as it is.
WalletNotFound_Left(row) == row
WalletNotFound(row) ==
  [row EXCEPT !.status = FAILED, !.description = <<"Failed: Wallet not found.">>]

\* credit_wallet line 29: the idempotency check, on the ORM object.
AlreadyCredited(transaction) == transaction.status = SUCCESS

\* credit_wallet line 32, and a variant of it that leaves the balance alone.
Credit_Lost(bal, amount) == bal
Credit(bal, amount) == bal + amount
\* The amount line 32 adds: the transaction's own, whatever the event says.
\* A variant that takes the event's.
CreditedAmount_FromEvent(transaction, event) == event.amount
CreditedAmount(transaction, event) == transaction.amount

\* credit_wallet line 33, and a variant of it that leaves the status alone.
SettledStatus_Pending == PENDING
SettledStatus == SUCCESS

\* paystack_webhook lines 175-183: the deliveries that reach credit_wallet.
ReachesCredit(body) ==
  /\ body.event = "charge.success"
  /\ body.reference # Null
  /\ startswith(body.reference, "dep_")
  /\ StillPending(TxByRef(body.reference))

\* paystack_webhook: the signature check, the event and reference filters, the
\* lookup of the transaction by reference (no lock taken) and the status check.
PaystackWebhook(s, event, reference, header) ==
  /\ last = NoResp
  /\ UNCHANGED accountVars
  /\ UNCHANGED keyVars
  /\ pc[s] = "idle"
  /\ reference \in WebhookReferences(txs)
  /\ UNCHANGED <<balance, txs, nextId, now>>
  /\ LET body == [event |-> event, reference |-> reference]
         x_paystack_signature == Header(header, body)
     IN IF x_paystack_signature = Null
        THEN Finish(s, [Refused("webhook", 0) EXCEPT !.ref = reference, !.sig = Some(header)],
                    "MissingSignature")
        ELSE IF x_paystack_signature # Hmac(WebhookSecret, body)
        THEN Finish(s, [Refused("webhook", 0) EXCEPT !.ref = reference, !.sig = Some(header)],
                    "InvalidSignature")
        ELSE IF ReachesCredit(body)
        THEN /\ pc' = [pc EXCEPT ![s] = "credit"]
             /\ req' = [req EXCEPT ![s] = Delivery(event, reference, header)]
             /\ loc' = [loc EXCEPT ![s] = [NoLoc EXCEPT !.tx = TxByRef(body.reference)]]
             /\ last' = NoResp
             /\ UNCHANGED lock
        ELSE Finish(s, Delivery(event, reference, header), "ack")

\* wallet_service.credit_wallet, from the SELECT ... FOR UPDATE of the wallet
\* row (which waits while another session holds the row) to the commit. The
\* transaction it tests and updates is the ORM object the webhook loaded
\* before the lock; nothing reloads it. The UPDATE of the transaction row is
\* by primary key and fails when the row is gone. The confirmed amount in the
\* event's data, which nothing has read so far, is drawn here.
CreditWallet(s, paid) ==
  /\ last = NoResp
  /\ UNCHANGED accountVars
  /\ UNCHANGED keyVars
  /\ pc[s] = "credit"
  /\ LET transaction == The(loc[s].tx)
         wallet == WalletById(transaction.wallet)
         row == TxById(transaction.id)
     IN /\ \A w \in wallet : lock[w] = 0
        /\ IF wallet = {}
           THEN IF row = {}
                THEN UNCHANGED <<balance, txs>> /\ Finish(s, req[s], "StoreUnavailable")
                ELSE /\ txs' = (txs \ row) \cup {WalletNotFound(The(row))}
                     /\ UNCHANGED balance
                     /\ Finish(s, req[s], "ack")
           ELSE IF AlreadyCredited(transaction)
           THEN UNCHANGED <<balance, txs>> /\ Finish(s, req[s], "ack")
           ELSE IF row = {}
           THEN UNCHANGED <<balance, txs>> /\ Finish(s, req[s], "StoreUnavailable")
           ELSE /\ balance' = [balance EXCEPT ![The(wallet)] =
                     Credit(balance[The(wallet)],
                            CreditedAmount(transaction, [req[s] EXCEPT !.amount = paid]))]
                /\ txs' = (txs \ row) \cup
                     {[The(row) EXCEPT !.status = SettledStatus, !.paid_at = Some(now)]}
                /\ Finish(s, [req[s] EXCEPT !.amount = paid], "ack")
  /\ UNCHANGED <<nextId, now>>

\* ------------------------------------------------------------- transfer
\* transfer_funds line 55, negated: the balance covers the amount. Two
\* variants of it: no check at all, and a check that lets one unit too much
\* through.
SufficientFunds_Unchecked(bal, amount) == TRUE
SufficientFunds_OffByOne(bal, amount) == ~(bal + 1 < amount)
SufficientFunds(bal, amount) == ~(bal < amount)

\* transfer_funds lines 71 and 72, and two variants of line 72: one leaves the
\* recipient's balance alone, one takes the amount from it.
DebitSender(bal, amount) == bal - amount
CreditRecipient_Lost(bal, amount) == bal
CreditRecipient_Debits(bal, amount) == bal - amount
CreditRecipient(bal, amount) == bal + amount

\* transfer_funds line 67: sender and recipient are one wallet. A variant that
\* never finds them so.
SameWallet_Unchecked(sender_id, recipient_id) == FALSE
SameWallet(sender_id, recipient_id) == sender_id = recipient_id

\* transfer_funds lines 80-100: the two rows of a transfer, a variant that
\* leaves them unsettled, and one that stamps them paid but keeps them pending.
NewTransfer_Pending(id, w, amount, reference, description) ==
  [id |-> id, ref |-> reference, wallet |-> w, user |-> w, type |-> TRANSFER,
   amount |-> amount, status |-> PENDING, paid_at |-> Some(now),
   description |-> description]
NewTransfer_Unsettled(id, w, amount, reference, description) ==
  [id |-> id, ref |-> reference, wallet |-> w, user |-> w, type |-> TRANSFER,
   amount |-> amount, status |-> PENDING, paid_at |-> Null, description |-> description]
NewTransfer(id, w, amount, reference, description) ==
  [id |-> id, ref |-> reference, wallet |-> w, user |-> w, type |-> TRANSFER,
   amount |-> amount, status |-> SUCCESS, paid_at |-> Some(now),
   description |-> description]

\* The rows staged by sessions still in flight.
StagedRows == UNION {loc[s].rows : s \in Sessions}

\* routers/wallet.py transfer_wallet_funds (the permission check and the
\* amount check) and transfer_funds lines 46-56: SELECT ... FOR UPDATE of the
\* sender's wallet by owner (it waits while another session holds the row),
\* then the checks on the row just read.
TransferWalletFunds(s, u, perms, to, amount) ==
  /\ last = NoResp
  /\ UNCHANGED accountVars
  /\ UNCHANGED keyVars
  /\ pc[s] = "idle"
  /\ UNCHANGED <<balance, txs, nextId, now>>
  /\ LET sender_wallet == WalletByUser(u)
     IN IF InvalidAmount(amount)
        THEN Finish(s, [Refused("transfer", u) EXCEPT !.amount = amount], "InvalidAmount")
        ELSE IF ~check_permission("transfer", perms)
        THEN Finish(s, [Refused("transfer", u) EXCEPT !.amount = amount], "Forbidden")
        ELSE IF InvalidAmount(amount)
        THEN Finish(s, TransferReq(u, amount, to), "InvalidAmount")
        ELSE /\ \A w \in sender_wallet : lock[w] = 0
             /\ IF sender_wallet = {}
                THEN Finish(s, TransferReq(u, amount, to), "NotFound")
                ELSE IF ~SufficientFunds(balance[The(sender_wallet)], amount)
                THEN Finish(s, TransferReq(u, amount, to), "InsufficientFunds")
                ELSE /\ nextId + 1 <= MaxTx
                     /\ lock' = [lock EXCEPT ![The(sender_wallet)] = s]
                     /\ loc' = [loc EXCEPT ![s] = [NoLoc EXCEPT !.sender =
                          {[id |-> The(sender_wallet),
                            balance |-> balance[The(sender_wallet)]]}]]
                     /\ req' = [req EXCEPT ![s] = TransferReq(u, amount, to)]
                     /\ pc' = [pc EXCEPT ![s] = "lock_recipient"]
                     /\ last' = NoResp

\* transfer_funds lines 58-102: SELECT ... FOR UPDATE of the recipient's wallet
\* by number, the checks, the two balance writes and the two new rows, flushed
\* when the begin_nested block exits (an INSERT of a reference that a
\* committed row carries is rejected; one that a row another session has
\* not yet committed carries waits for that session).
TransferLockRecipient(s, n1, n2) ==
  /\ last = NoResp
  /\ UNCHANGED accountVars
  /\ UNCHANGED keyVars
  /\ pc[s] = "lock_recipient"
  /\ n1 \in uuid4(Suffixes(txs \cup StagedRows, "xfer_"))
  /\ n2 \in uuid4(Suffixes(txs \cup StagedRows, "xfer_") \cup {n1})
  /\ {XferRef(n1), XferRef(n2)} \cap {t.ref : t \in StagedRows} = {}
  /\ UNCHANGED <<balance, txs, now>>
  /\ LET sender_wallet == The(loc[s].sender)
         recipient_wallet == WalletByNumber(req[s].to)
         amount == req[s].amount
     IN /\ \A w \in recipient_wallet : lock[w] \in {0, s}
        /\ IF recipient_wallet = {}
           THEN Finish(s, req[s], "NotFound") /\ UNCHANGED nextId
           ELSE IF SameWallet(sender_wallet.id, The(recipient_wallet))
           THEN Finish(s, req[s], "InvalidOperation") /\ UNCHANGED nextId
           ELSE IF \/ n1 = n2
                   \/ UniqueViolation(txs, XferRef(n1))
                   \/ UniqueViolation(txs, XferRef(n2))
           THEN Finish(s, req[s], "StoreUnavailable") /\ UNCHANGED nextId
           ELSE /\ lock' = [lock EXCEPT ![The(recipient_wallet)] = s]
                /\ loc' = [loc EXCEPT ![s] =
                     [tx |-> {}, user |-> {},
                      sender |-> {[id |-> sender_wallet.id,
                                   balance |-> DebitSender(sender_wallet.balance, amount)]},
                      recipient |-> {[id |-> The(recipient_wallet),
                                      balance |-> CreditRecipient(
                                         balance[The(recipient_wallet)], amount)]},
                      rows |-> {NewTransfer(nextId, sender_wallet.id, 0 - amount, XferRef(n1),
                                            <<"Transfer to wallet ", req[s].to>>),
                                NewTransfer(nextId + 1, The(recipient_wallet), amount,
                                            XferRef(n2),
                                            <<"Transfer from wallet ",
                                              wallet_number(sender_wallet.id)>>)}]]
                /\ nextId' = nextId + 2
                /\ pc' = [pc EXCEPT ![s] = "commit"]
                /\ last' = NoResp
                /\ UNCHANGED req

\* The session's transaction, left open by transfer_funds (begin_nested only
\* releases its savepoint), is committed when the request ends.
RequestCommits == TRUE

\* What one COMMIT writes: the balances of the wallet objects the session
\* changed and the rows it added, all at once.
CommitBalances(s) ==
  [w \in Wallets |->
     IF \E o \in loc[s].sender \cup loc[s].recipient : o.id = w
     THEN (CHOOSE o \in loc[s].sender \cup loc[s].recipient : o.id = w).balance
     ELSE balance[w]]
\* A variant that writes the sender's row only.
CommitRows_SenderOnly(s) == txs \cup {t \in loc[s].rows : t.amount < 0}
CommitRows(s) == txs \cup loc[s].rows

TransferCommit(s) ==
  /\ last = NoResp
  /\ UNCHANGED accountVars
  /\ UNCHANGED keyVars
  /\ pc[s] = "commit"
  /\ IF RequestCommits
     THEN balance' = CommitBalances(s) /\ txs' = CommitRows(s)
     ELSE UNCHANGED <<balance, txs>>
  /\ Finish(s, req[s], "ok")
  /\ UNCHANGED <<nextId, now>>

\* A failure while the transfer's transaction is open (the connection is lost,
\* a lock wait times out, the server picks the session as a deadlock victim):
\* the exception leaves begin_nested, everything is rolled back.
TransferAbort(s) ==
  /\ last = NoResp
  /\ UNCHANGED accountVars
  /\ UNCHANGED keyVars
  /\ pc[s] \in {"lock_recipient", "commit"}
  /\ Finish(s, req[s], "StoreUnavailable")
  /\ UNCHANGED <<balance, txs, nextId, now>>


\* ---------------------------------------------------------------- reads
\* What the read handlers return of a row, a wallet and a key.
DepositStatusResponse(t) == <<t.ref, t.status, t.amount, t.paid_at>>
TransactionHistoryResponse(t) == <<t.id, t.type, t.amount, t.status>>
ApiKeyDetailResponse(k) == <<k.id, k.name, k.permissions, k.expires_at, k.is_active>>
ReadReq(op, u, reference) == [Refused(op, u) EXCEPT !.ref = reference]
\* The deposit of a reference as its owner sees it (routers/wallet.py 203-209
\* and 240-246).
OwnDeposit(u, reference) ==
  {t \in txs : t.ref = reference /\ OwnedBy(t.user, u) /\ t.type = DEPOSIT}

\* routers/wallet.py get_deposit_status
GetDepositStatus(s, u, perms, reference) ==
  /\ last = NoResp
  /\ UNCHANGED accountVars
  /\ pc[s] = "idle"
  /\ UNCHANGED <<balance, txs, nextId, now, keys, nextKey>>
  /\ IF ~check_permission("read", perms)
     THEN Finish(s, ReadReq("status", u, reference), "Forbidden")
     ELSE IF OwnDeposit(u, reference) = {}
     THEN Finish(s, ReadReq("status", u, reference), "NotFound")
     ELSE Finish(s, [ReadReq("status", u, reference) EXCEPT !.detail =
                       Some(DepositStatusResponse(The(OwnDeposit(u, reference))))], "ok")

\* routers/wallet.py verify_deposit_transaction: the same lookup, then the
\* gateway's verify call, whose answer is returned next to the row's fields.
VerifyOutcomes == {"success", "unknown", "http_error"}
\* What the handler writes to the rows on the gateway's answer: nothing. A
\* variant that settles the deposit when the gateway reports success.
VerifyWrites_Settles(rows, transaction, outcome) ==
  IF outcome = "success"
  THEN (rows \ {transaction}) \cup {[transaction EXCEPT !.status = SUCCESS]}
  ELSE rows
VerifyWrites(rows, transaction, outcome) == rows
VerifyDepositTransaction(s, u, perms, reference, outcome) ==
  /\ last = NoResp
  /\ UNCHANGED accountVars
  /\ pc[s] = "idle"
  /\ UNCHANGED <<balance, nextId, now, keys, nextKey>>
  /\ IF ~check_permission("read", perms)
     THEN UNCHANGED txs /\ Finish(s, ReadReq("verify", u, reference), "Forbidden")
     ELSE IF OwnDeposit(u, reference) = {}
     THEN UNCHANGED txs /\ Finish(s, ReadReq("verify", u, reference), "NotFound")
     ELSE IF outcome = "http_error"
     THEN UNCHANGED txs /\ Finish(s, ReadReq("verify", u, reference), "GatewayUnavailable")
     ELSE /\ txs' = VerifyWrites(txs, The(OwnDeposit(u, reference)), outcome)
          /\ Finish(s, [ReadReq("verify", u, reference) EXCEPT !.detail =
                          Some(DepositStatusResponse(The(OwnDeposit(u, reference)))
                                 \o <<outcome>>)], "ok")

\* routers/wallet.py get_wallet_balance
GetWalletBalance(s, u, perms) ==
  /\ last = NoResp
  /\ UNCHANGED accountVars
  /\ pc[s] = "idle"
  /\ UNCHANGED <<balance, txs, nextId, now, keys, nextKey>>
  /\ IF ~check_permission("read", perms)
     THEN Finish(s, Refused("balance", u), "Forbidden")
     ELSE IF WalletByUser(u) = {}
     THEN Finish(s, Refused("balance", u), "NotFound")
     ELSE Finish(s, [Refused("balance", u) EXCEPT !.amount =
                       balance[The(WalletByUser(u))]], "ok")

\* routers/wallet.py get_wallet_transactions: the rows of the caller's wallet.
GetWalletTransactions(s, u, perms) ==
  /\ last = NoResp
  /\ UNCHANGED accountVars
  /\ pc[s] = "idle"
  /\ UNCHANGED <<balance, txs, nextId, now, keys, nextKey>>
  /\ IF ~check_permission("read", perms)
     THEN Finish(s, Refused("transactions", u), "Forbidden")
     ELSE IF WalletByUser(u) = {}
     THEN Finish(s, Refused("transactions", u), "NotFound")
     ELSE Finish(s, [Refused("transactions", u) EXCEPT !.perms =
                       {TransactionHistoryResponse(t) :
                          t \in {r \in txs : r.wallet = The(WalletByUser(u))}}], "ok")

\* ------------------------------------------------------------- API keys
\* routers/keys.py line 23 and line 68 (random_part[:8])
MAX_ACTIVE_API_KEYS == 5
KeyPrefixLen == 8

\* A string is the sequence of its characters.
api_key_prefix == <<"s", "k", "_", "l", "i", "v", "e">>
Fill(ch, n) == [i \in 1..n |-> ch]
str_startswith(str, pre) == Len(str) >= Len(pre) /\ SubSeq(str, 1, Len(pre)) = pre
\* str[:n]
Take(str, n) == SubSeq(str, 1, IF Len(str) < n THEN Len(str) ELSE n)
\* str.split(sep)
RECURSIVE split(_, _)
split(str, sep) ==
  IF \A i \in 1..Len(str) : str[i] # sep THEN <<str>>
  ELSE LET i == Min({j \in 1..Len(str) : str[j] = sep})
       IN <<SubSeq(str, 1, i - 1)>> \o split(SubSeq(str, i + 1, Len(str)), sep)

\* secrets.token_urlsafe: a string over A-Z a-z 0-9 - _ . The values here are
\* told apart by their first character and come in three shapes: letters
\* only, an underscore among the first characters, and one that differs from
\* the letters-only value in its last character alone.
SeedChars == <<"b", "c", "d", "e", "f", "g", "h", "i", "j", "k">>
Seeds == 1..Len(SeedChars)
Shapes == {"plain", "underscore", "collide"}
RandomPart(seed, shape) ==
  <<SeedChars[seed]>> \o
    (IF shape = "underscore" THEN <<"a", "_">> \o Fill("a", RandomLen - 3)
     ELSE IF shape = "collide" THEN Fill("a", RandomLen - 2) \o <<"-">>
     ELSE Fill("a", RandomLen - 1))
\* The seeds worth drawing: those in use and the least one that is not.
SeedsInUse == {seed \in Seeds : \E k \in keys : k.key_hash[2][Len(api_key_prefix) + 2]
                                                   = SeedChars[seed]}
token_urlsafe(shapes) ==
  {RandomPart(seed, shape) :
     seed \in SeedsInUse \cup (IF Seeds \ SeedsInUse = {} THEN {}
                               ELSE {Min(Seeds \ SeedsInUse)}),
     shape \in shapes}

\* auth_utils.hash_api_key: SHA-256, equal exactly when the strings are.
hash_api_key(api_key) == <<"sha256", api_key>>
\* keys.py lines 67-68 (and 123-124)
PlainApiKey(random_part) == api_key_prefix \o <<"_">> \o random_part
StoredKeyPrefix(random_part) == Take(random_part, KeyPrefixLen)
\* auth_utils.py lines 59-63
LookupKeyPrefix(api_key) == Take(split(api_key, "_")[3], KeyPrefixLen)

\* keys.calculate_expiry_datetime: the durations, in ticks of the clock.
ExpiryDurations == {1}
calculate_expiry_datetime(duration) == now + duration
KeyNames == {"ci"}

\* The key rows that count toward the ceiling (keys.py lines 52-58).
ActiveKeys(u) == {k \in keys : k.user = u /\ k.is_active /\ k.expires_at > now}

\* What authentication yields: a principal with permissions, or a failure.
AuthOk(u, permissions) ==
  [kind |-> "ok", detail |-> Null, user |-> u, perms |-> permissions]
AuthFail(kind, detail) == [kind |-> kind, detail |-> detail, user |-> 0, perms |-> {}]
CREDENTIALS_EXCEPTION == AuthFail("Unauthenticated", Some("Could not validate credentials"))

\* get_user_from_api_key lines 73-78: the candidate whose stored hash is the
\* hash of the whole presented string. A variant that trusts the prefix.
HashMatches_PrefixTrusted(k, api_key) == TRUE
HashMatches(k, api_key) == k.key_hash = hash_api_key(api_key)

\* get_user_from_api_key line 83: the key found is not active. A variant that
\* never finds it so.
Inactive_Unchecked(k) == FALSE
Inactive(k) == ~k.is_active

\* auth_utils.get_user_from_api_key
get_user_from_api_key(api_key) ==
  IF ~str_startswith(api_key, api_key_prefix \o <<"_">>) THEN CREDENTIALS_EXCEPTION
  ELSE IF Len(split(api_key, "_")) < 3 THEN CREDENTIALS_EXCEPTION
  ELSE LET key_prefix == LookupKeyPrefix(api_key)
           potential_keys == {k \in keys : k.key_prefix = key_prefix}
           matching == {k \in potential_keys : HashMatches(k, api_key)}
       IN IF potential_keys = {} THEN CREDENTIALS_EXCEPTION
          ELSE IF matching = {} THEN CREDENTIALS_EXCEPTION
          ELSE IF Inactive(The(matching))
          THEN AuthFail("Forbidden", Some("API key is inactive"))
          ELSE IF The(matching).expires_at <= now
          THEN AuthFail("Forbidden", Some("API key has expired"))
          ELSE IF The(matching).user \notin Users THEN CREDENTIALS_EXCEPTION
          ELSE AuthOk(The(matching).user, The(matching).permissions)

\* A bearer token: a JWT signed by this service for a user, or anything else.
\* The tokens presented are the first user's and one that is no JWT.
Jwt(u) == <<"jwt", u>>
BadToken == <<"dummy_token">>
BearerTokens == {Jwt(Min(Users)), BadToken}

\* auth_utils.get_current_user_with_permissions, given what its dependency
\* oauth2_scheme yielded.
get_current_user_with_permissions(credentials, x_api_key) ==
  IF credentials # Null
  THEN IF credentials[1][1] = "jwt" /\ credentials[1][2] \in Users
       THEN AuthOk(credentials[1][2], ApiKeyPermissions)
       ELSE CREDENTIALS_EXCEPTION
  ELSE IF x_api_key # Null THEN get_user_from_api_key(x_api_key[1])
  ELSE CREDENTIALS_EXCEPTION

\* oauth2_scheme = HTTPBearer(): without an Authorization header the request is
\* refused with 403 "Not authenticated" before the dependant runs. A variant
\* in which the header is optional.
Authenticate_Optional(authorization, x_api_key) ==
  get_current_user_with_permissions(authorization, x_api_key)
Authenticate(authorization, x_api_key) ==
  IF authorization = Null THEN AuthFail("NotAuthenticated", Some("Not authenticated"))
  ELSE get_current_user_with_permissions(authorization, x_api_key)

\* The key strings worth presenting: every issued one, for each of them the
\* strings of the other shapes with the same first character, one of a first
\* character not in use, and one that is no key at all.
IssuedKeys == {k.key_hash[2] : k \in keys}
PresentedKeys ==
  IssuedKeys
    \cup {PlainApiKey(RandomPart(seed, shape)) : seed \in SeedsInUse, shape \in Shapes}
    \cup {PlainApiKey(r) : r \in token_urlsafe({"plain"})}
    \cup {<<"x">>}
Operations == {"deposit", "transfer", "read"}

\* The request a key operation serves, and the answer to an authentication.
KeyReq(op, u) == [NoReq EXCEPT !.op = op, !.user = u]
Answered(request, result) ==
  [request EXCEPT !.user = result.user, !.perms = result.perms, !.detail = result.detail]

\* get_user_from_api_key called with a presented string.
GetUserFromApiKey(s, api_key) ==
  /\ last = NoResp
  /\ UNCHANGED accountVars
  /\ pc[s] = "idle"
  /\ UNCHANGED <<balance, txs, nextId, now, keys, nextKey>>
  /\ LET result == get_user_from_api_key(api_key)
     IN Finish(s, Answered([NoReq EXCEPT !.op = "authenticate", !.key = Some(api_key)],
                           result), result.kind)

\* What every wallet handler does first: the credentials are resolved
\* (Depends(get_current_user_with_permissions)) and check_permission is called
\* with the operation's permission; the handler's body runs if both pass.
AuthorizedRequest(s, op, authorization, x_api_key) ==
  /\ last = NoResp
  /\ UNCHANGED accountVars
  /\ pc[s] = "idle"
  /\ UNCHANGED <<balance, txs, nextId, now, keys, nextKey>>
  /\ LET result == Authenticate(authorization, x_api_key)
         request == Answered([NoReq EXCEPT !.op = op, !.bearer = authorization,
                                           !.key = x_api_key], result)
     IN IF result.kind # "ok"
        THEN Finish(s, request, result.kind)
        ELSE IF ~check_permission(op, result.perms)
        THEN Finish(s, [request EXCEPT !.detail = Some(<<"Insufficient permissions", op>>)],
                    "Forbidden")
        ELSE Finish(s, request, "admitted")

\* routers/keys.py create_api_key lines 49-63: the count of the caller's
\* active, unexpired keys and the ceiling check (no lock is taken).
CreateApiKey(s, u, name, permissions, expiry, limit) ==
  /\ last = NoResp
  /\ UNCHANGED accountVars
  /\ pc[s] = "idle"
  /\ UNCHANGED <<balance, txs, nextId, now, keys, nextKey>>
  /\ LET request == [KeyReq("create_key", u) EXCEPT !.name = Some(name),
                       !.perms = permissions, !.expiry = expiry]
     IN IF Cardinality(ActiveKeys(u)) >= MAX_ACTIVE_API_KEYS
        THEN Finish(s, request, "LimitExceeded")
        ELSE /\ nextKey + Cardinality({x \in Sessions : pc[x] = "create_key"}) <= limit
             /\ pc' = [pc EXCEPT ![s] = "create_key"]
             /\ req' = [req EXCEPT ![s] = request]
             /\ last' = NoResp
             /\ UNCHANGED <<lock, loc>>

NewApiKey(id, u, random_part, name, permissions, expires_at) ==
  [id |-> id, user |-> u, key_hash |-> hash_api_key(PlainApiKey(random_part)),
   key_prefix |-> StoredKeyPrefix(random_part), name |-> name,
   permissions |-> permissions, expires_at |-> expires_at, is_active |-> TRUE]
\* The unique index on key_hash
HashTaken(random_part) ==
  \E k \in keys : k.key_hash = hash_api_key(PlainApiKey(random_part))

\* create_api_key lines 65-83: the new key is generated, inserted and
\* committed, and its plaintext returned.
InsertApiKey(s, random_part) ==
  /\ last = NoResp
  /\ UNCHANGED accountVars
  /\ pc[s] = "create_key"
  /\ UNCHANGED <<balance, txs, nextId, now>>
  /\ IF HashTaken(random_part)
     THEN UNCHANGED keyVars /\ Finish(s, req[s], "StoreUnavailable")
     ELSE /\ keys' = keys \cup
               {NewApiKey(nextKey, req[s].user, random_part, req[s].name[1], req[s].perms,
                          calculate_expiry_datetime(req[s].expiry))}
          /\ nextKey' = nextKey + 1
          /\ Finish(s, [req[s] EXCEPT !.key = Some(PlainApiKey(random_part))], "ok")

\* rollover_api_key line 119 and revoke_api_key line 194: the key is set
\* inactive. A variant that leaves it as it is.
Deactivated_Kept(k) == k
Deactivated(k) == [k EXCEPT !.is_active = FALSE]

\* rollover_api_key line 115: the key's expiry is still ahead. A variant that
\* never finds it so, and one that also turns away a key that is inactive.
NotYetExpired_Unchecked(k) == FALSE
NotYetExpired_OrInactive(k) == k.expires_at > now \/ ~k.is_active
NotYetExpired(k) == k.expires_at > now

\* routers/keys.py rollover_api_key
RolloverApiKey(s, u, key_id, expiry, random_part, limit) ==
  /\ last = NoResp
  /\ UNCHANGED accountVars
  /\ pc[s] = "idle"
  /\ UNCHANGED <<balance, txs, nextId, now>>
  /\ LET found == {k \in keys : k.id = key_id /\ OwnedBy(k.user, u)}
         request == [KeyReq("rollover", u) EXCEPT !.ref = Some(key_id), !.expiry = expiry]
     IN IF found = {}
        THEN UNCHANGED keyVars /\ Finish(s, request, "NotFound")
        ELSE IF NotYetExpired(The(found))
        THEN UNCHANGED keyVars /\ Finish(s, request, "NotExpired")
        ELSE IF HashTaken(random_part)
        THEN UNCHANGED keyVars /\ Finish(s, request, "StoreUnavailable")
        ELSE /\ nextKey + Cardinality({x \in Sessions : pc[x] = "create_key"}) <= limit
             /\ keys' = (keys \ found)
                  \cup {Deactivated(The(found))}
                  \cup {NewApiKey(nextKey, u, random_part, The(found).name,
                                  The(found).permissions,
                                  calculate_expiry_datetime(expiry))}
             /\ nextKey' = nextKey + 1
             /\ Finish(s, [request EXCEPT !.key = Some(PlainApiKey(random_part))], "ok")

\* routers/keys.py list_api_keys: the caller's keys.
ListApiKeys(s, u) ==
  /\ last = NoResp
  /\ UNCHANGED accountVars
  /\ pc[s] = "idle"
  /\ UNCHANGED <<balance, txs, nextId, now, keys, nextKey>>
  /\ Finish(s, [KeyReq("list_keys", u) EXCEPT !.perms =
                  {ApiKeyDetailResponse(k) : k \in {x \in keys : OwnedBy(x.user, u)}}], "ok")

\* routers/keys.py revoke_api_key
RevokeApiKey(s, u, key_id) ==
  /\ last = NoResp
  /\ UNCHANGED accountVars
  /\ pc[s] = "idle"
  /\ UNCHANGED <<balance, txs, nextId, now, nextKey>>
  /\ LET found == {k \in keys : k.id = key_id /\ OwnedBy(k.user, u)}
         request == [KeyReq("revoke", u) EXCEPT !.ref = Some(key_id)]
     IN IF found = {}
        THEN UNCHANGED keys /\ Finish(s, request, "NotFound")
        ELSE /\ keys' = (keys \ found) \cup {Deactivated(The(found))}
             /\ Finish(s, request, "ok")

\* ------------------------------------------------------- specification
\* The wallet router's handlers, overlapping. The clock stands still here: the
\* ledger reads it only to stamp paid_at, and no handler's outcome depends on
\* the stamp (the specifications of the keys, where expiry matters, let it run).
Next ==
  \/ Deliver
  \/ \E s \in Sessions, u \in Users, perms \in PermSets, amount \in DepositAmounts,
        n \in RefSuffixes : InitiateDeposit(s, u, perms, amount, n)
  \/ \E s \in Sessions, outcome \in GatewayOutcomes : DepositGateway(s, outcome)
  \/ \E s \in Sessions, event \in Events, reference \in References \cup {Null},
        header \in HeaderKinds : PaystackWebhook(s, event, reference, header)
  \/ \E s \in Sessions, paid \in ConfirmedAmounts : CreditWallet(s, paid)
  \/ \E s \in Sessions, u \in Users, perms \in PermSets, to \in WalletNumbers,
        amount \in Amounts : TransferWalletFunds(s, u, perms, to, amount)
  \/ \E s \in Sessions, n1 \in RefSuffixes, n2 \in RefSuffixes :
        TransferLockRecipient(s, n1, n2)
  \/ \E s \in Sessions : TransferCommit(s)
  \/ \E s \in Sessions : TransferAbort(s)

Spec == Init /\ [][Next]_vars

\* The settlement of deposits while the clock runs: initiations with full
\* permissions, the gateway's answers, validly signed confirmations and the
\* credit, overlapping.
NextSettlement ==
  \/ Deliver
  \/ Tick
  \/ \E s \in Sessions, u \in Users, n \in RefSuffixes :
        InitiateDeposit(s, u, ApiKeyPermissions, MaxDepositAmount, n)
  \/ \E s \in Sessions, outcome \in GatewayOutcomes : DepositGateway(s, outcome)
  \/ \E s \in Sessions, reference \in References :
        PaystackWebhook(s, "charge.success", reference, "good")
  \/ \E s \in Sessions, paid \in ConfirmedAmounts : CreditWallet(s, paid)

SpecSettlement == Init /\ [][NextSettlement]_vars

\* The API keys of both users and their use as credentials, one request at a
\* time (requests that overlap are in NextCeiling).
KeySessions == {Min(Sessions)}
NextKeys ==
  \/ Deliver
  \/ Tick
  \/ \E s \in KeySessions, api_key \in PresentedKeys : GetUserFromApiKey(s, api_key)
  \/ \E s \in KeySessions, op \in Operations,
        authorization \in {Null} \cup {Some(t) : t \in BearerTokens},
        x_api_key \in {Null} \cup {Some(k) : k \in IssuedKeys \cup {<<"x">>}} :
        AuthorizedRequest(s, op, authorization, x_api_key)
  \/ \E s \in KeySessions, u \in Users, name \in KeyNames, permissions \in PermSets,
        expiry \in ExpiryDurations : CreateApiKey(s, u, name, permissions, expiry, MaxKeys)
  \/ \E s \in KeySessions, random_part \in token_urlsafe(Shapes) :
        InsertApiKey(s, random_part)
  \/ \E s \in KeySessions, u \in Users, key_id \in 1..nextKey, expiry \in ExpiryDurations,
        random_part \in token_urlsafe(Shapes) :
        RolloverApiKey(s, u, key_id, expiry, random_part, MaxKeys)
  \/ \E s \in KeySessions, u \in Users, key_id \in 1..nextKey : RevokeApiKey(s, u, key_id)

SpecKeys == Init /\ [][NextKeys]_vars

\* The API keys of one user, as many as the ceiling takes.
NextCeiling ==
  \/ Deliver
  \/ Tick
  \/ \E s \in Sessions :
        CreateApiKey(s, 1, "ci", ApiKeyPermissions, 1, MaxCeilingKeys)
  \/ \E s \in Sessions, random_part \in token_urlsafe({"plain"}) :
        InsertApiKey(s, random_part)
  \/ \E s \in Sessions, key_id \in 1..nextKey,
        random_part \in token_urlsafe({"plain"}) :
        RolloverApiKey(s, 1, key_id, 1, random_part, MaxCeilingKeys)
  \/ \E s \in Sessions, key_id \in 1..nextKey : RevokeApiKey(s, 1, key_id)

SpecCeiling == Init /\ [][NextCeiling]_vars

\* The ledger, the reads and the API keys together, one request at a time:
\* every write with full permissions and a valid signature, the keys created
\* by the first user with one shape of random part.
ReadPermSets == {{"read"}, {"deposit", "transfer"}}
ReadReferences == {t.ref : t \in txs} \cup {DepRef(Min(RefSuffixes \ {t.ref[2] : t \in txs}))}
NextReads ==
  \/ Deliver
  \/ Tick
  \/ \E s \in KeySessions, u \in Users, n \in RefSuffixes :
        InitiateDeposit(s, u, ApiKeyPermissions, MaxDepositAmount, n)
  \/ \E s \in KeySessions, outcome \in GatewayOutcomes : DepositGateway(s, outcome)
  \/ \E s \in KeySessions, reference \in References :
        PaystackWebhook(s, "charge.success", reference, "good")
  \/ \E s \in KeySessions : CreditWallet(s, MaxDepositAmount)
  \/ \E s \in KeySessions, u \in Users, to \in WalletNumbers :
        TransferWalletFunds(s, u, ApiKeyPermissions, to, MaxDepositAmount)
  \/ \E s \in KeySessions, n1 \in RefSuffixes, n2 \in RefSuffixes :
        TransferLockRecipient(s, n1, n2)
  \/ \E s \in KeySessions : TransferCommit(s)
  \/ \E s \in KeySessions : TransferAbort(s)
  \/ \E s \in KeySessions, u \in Users, perms \in ReadPermSets,
        reference \in ReadReferences : GetDepositStatus(s, u, perms, reference)
  \/ \E s \in KeySessions, u \in Users, perms \in ReadPermSets,
        reference \in ReadReferences, outcome \in VerifyOutcomes :
        VerifyDepositTransaction(s, u, perms, reference, outcome)
  \/ \E s \in KeySessions, u \in Users, perms \in ReadPermSets :
        GetWalletBalance(s, u, perms)
  \/ \E s \in KeySessions, u \in Users, perms \in ReadPermSets :
        GetWalletTransactions(s, u, perms)
  \/ \E s \in KeySessions :
        CreateApiKey(s, Min(Users), "ci", ApiKeyPermissions, 1, MaxKeys)
  \/ \E s \in KeySessions, random_part \in token_urlsafe({"plain"}) :
        InsertApiKey(s, random_part)
  \/ \E s \in KeySessions, u \in Users, key_id \in 1..nextKey,
        random_part \in token_urlsafe({"plain"}) :
        RolloverApiKey(s, u, key_id, 1, random_part, MaxKeys)
  \/ \E s \in KeySessions, u \in Users, key_id \in 1..nextKey : RevokeApiKey(s, u, key_id)
  \/ \E s \in KeySessions, u \in Users : ListApiKeys(s, u)

SpecReads == Init /\ [][NextReads]_vars

\* ------------------------------------------------------------ properties
\* The committed row that the transaction object a session loaded stands for.
LoadedRow(s) == IF loc[s].tx = {} THEN {} ELSE TxById(The(loc[s].tx).id)

\* In this step session s leaves credit_wallet.
CreditStep(s) == pc[s] = "credit" /\ pc'[s] = "idle"

\* The sum of the amounts of a set of rows.
RECURSIVE SumAmounts(_)
SumAmounts(rows) ==
  IF rows = {} THEN 0
  ELSE LET r == The(rows) IN r.amount + SumAmounts(rows \ {r})

\* Session s waits for the row lock of wallet w, which another session holds.
Waits(s, w) ==
  /\ pc[s] = "lock_recipient"
  /\ w \in WalletByNumber(req[s].to)
  /\ lock[w] \notin {0, s}

\* C1: concurrent confirmations for one PENDING deposit credit the wallet
\* once in every interleaving: a confirmation changes a balance only if the
\* transaction is still PENDING in the store at the moment it credits, the
\* status check and the credit being one atomic unit under the wallet lock.
C1_CreditOnlyWhilePending ==
  [][\A s \in Sessions :
       (CreditStep(s) /\ balance' # balance)
          => \E t \in LoadedRow(s) : t.status = PENDING]_vars

\* C2: in every reachable state every wallet's balance is at least 0.
C2_BalanceNonNegative == \A w \in Wallets : balance[w] >= 0

\* A wallet was drained by a transfer and a further transfer out of it was
\* refused.
C2_Witness ==
  /\ last.kind = "InsufficientFunds"
  /\ \E t \in txs : /\ t.type = TRANSFER
                    /\ t.amount < 0
                    /\ t.wallet \in WalletByUser(last.req.user)
                    /\ balance[t.wallet] = 0

C4_TransferAtomic ==
  [][LET added == {t \in txs' : t.type = TRANSFER /\ TxById(t.id) = {}}
     IN /\ \A t \in txs : t.type = TRANSFER => t \in txs'
        /\ \/ /\ added = {}
              /\ (balance' = balance \/ \E s \in Sessions : CreditStep(s))
           \/ \E d \in added, c \in added :
                /\ d.id # c.id
                /\ added = {d, c}
                /\ d.amount < 0
                /\ c.amount = 0 - d.amount
                /\ d.wallet # c.wallet
                /\ balance' = [balance EXCEPT ![d.wallet] = @ + d.amount,
                                              ![c.wallet] = @ + c.amount]]_vars

\* A transfer failed after its four writes were staged, and the last row it
\* staged is nowhere.
C4_Witness ==
  /\ last.req.op = "transfer"
  /\ last.kind = "StoreUnavailable"
  /\ nextId - 1 > MaxDeposits
  /\ TxById(nextId - 1) = {}
  /\ \A r \in StagedRows : r.id # nextId - 1

\* C5: two transfers in opposite directions between the same two wallets never
\* deadlock, the row locks being taken in one fixed order over the wallets: no
\* state has two sessions each holding the lock the other waits for.
C5_NoDeadlock ==
  ~ \E s1 \in Sessions, s2 \in Sessions :
      /\ s1 # s2
      /\ \E w1 \in Wallets, w2 \in Wallets :
           /\ Waits(s1, w1) /\ lock[w1] = s2
           /\ Waits(s2, w2) /\ lock[w2] = s1

\* C6: in every committed state each wallet's balance, 0 at creation, is the
\* sum of the amounts of the SUCCESS transactions recorded against it.
C6_BalanceIsLedgerSum ==
  \A w \in Wallets :
    balance[w] = SumAmounts({t \in txs : t.wallet = w /\ t.status = SUCCESS})

\* C7: a confirmation delivered again after an earlier delivery has settled
\* the deposit changes nothing and is acknowledged: the deposit is SUCCESS,
\* the delivery does not reach the credit, and the store is as it was.
C7_RepeatedDeliveryNoOp ==
  [][\A t \in txs :
       (t.type = DEPOSIT /\ t.paid_at # Null) =>
          /\ t.status = SUCCESS
          /\ \A s \in Sessions :
               (pc[s] = "idle" /\ pc'[s] = "credit") => req'[s].ref # t.ref
          /\ (pc' = pc /\ last'.req \in Confirmations(t.ref))
                => (last'.kind = "ack" /\ balance' = balance /\ txs' = txs)]_vars

\* A confirmation of a settled deposit was acknowledged by the webhook itself,
\* without a credit (the request carries no credited amount), and the wallet
\* holds the amount once.
C7_Witness ==
  \E t \in txs :
    /\ t.type = DEPOSIT
    /\ t.status = SUCCESS
    /\ t.paid_at # Null
    /\ last.req \in Confirmations(t.ref)
    /\ last.req.amount = 0
    /\ last.kind = "ack"
    /\ balance[t.wallet] = t.amount

\* C8: a transfer of more than the sender's balance is refused with
\* InsufficientFunds and changes no balance and no row, whatever the recipient
\* number, also one that no wallet carries; none such gets past the check.
C8_InsufficientFundsRejected ==
  [][/\ \A s \in Sessions :
          (pc[s] = "idle" /\ pc'[s] = "lock_recipient")
             => \A w \in WalletByUser(req'[s].user) : req'[s].amount <= balance[w]
     /\ (/\ last'.req.op = "transfer"
         /\ last'.kind # "Forbidden"
         /\ \E w \in WalletByUser(last'.req.user) : last'.req.amount > balance[w])
            => (last'.kind = "InsufficientFunds" /\ balance' = balance /\ txs' = txs)]_vars

\* A transfer of more than a positive balance to a number no wallet carries
\* was refused.
C8_Witness ==
  /\ last.kind = "InsufficientFunds"
  /\ last.req.to = NoSuchNumber
  /\ \E w \in WalletByUser(last.req.user) : 0 < balance[w] /\ balance[w] < last.req.amount

C10_SettledDepositImmutable ==
  [][\A t \in txs :
       (t.type = DEPOSIT /\ t.status \in {SUCCESS, FAILED}) =>
          \A u \in txs' :
            u.id = t.id => /\ u.status = t.status
                           /\ u.amount = t.amount
                           /\ u.paid_at = t.paid_at]_vars

\* C11: a webhook whose signature header is absent or is not the HMAC of the
\* body under the webhook secret is rejected before any ledger effect: it is
\* answered MissingSignature or InvalidSignature in the step it arrives, no
\* balance and no transaction changes, and no session takes it up.
C11_BadSignatureRejected ==
  [][/\ \A s \in Sessions : req'[s].op = "webhook" => req'[s].sig = Some("good")
     /\ (last'.req.op = "webhook" /\ last'.req.sig # Some("good"))
           => /\ last'.req.sig = Some("absent") => last'.kind = "MissingSignature"
              /\ last'.req.sig = Some("wrong") => last'.kind = "InvalidSignature"
              /\ last'.kind \in {"MissingSignature", "InvalidSignature"}
              /\ balance' = balance /\ txs' = txs /\ pc' = pc]_vars

\* A delivery signed under another secret, naming a PENDING deposit, was
\* rejected.
C11_Witness ==
  /\ last.kind = "InvalidSignature"
  /\ last.req.sig = Some("wrong")
  /\ \E t \in TxByRef(last.req.ref) : t.type = DEPOSIT /\ t.status = PENDING

\* C12: when the gateway call of a deposit initiation fails or returns a
\* non-success result the caller gets GatewayUnavailable and the PENDING row
\* just created is rolled back: after the step that answers so, no PENDING
\* transaction with the request's reference is in the store.
C12_FailedInitiationRolledBack ==
  [][(last'.req.op = "deposit" /\ last'.kind = "GatewayUnavailable")
        => \A t \in txs' : t.ref = last'.req.ref => t.status # PENDING]_vars

\* C13: every issued API key authenticates: while the key is active and not
\* expired, presenting its plaintext resolves to the key's owner and exactly
\* the key's permissions, whatever its random part is.
C13_IssuedKeyAuthenticates ==
  [][\A k \in keys :
        (/\ last'.req.op = "authenticate"
         /\ last'.req.key = Some(k.key_hash[2])
         /\ k.is_active
         /\ k.expires_at > now)
          => /\ last'.kind = "ok"
             /\ last'.req.user = k.user
             /\ last'.req.perms = k.permissions]_vars

\* C14: in every reachable state every user has at most MAX_ACTIVE_API_KEYS
\* keys that are both active and not expired.
C14_ActiveKeyCeiling ==
  \A u \in Users : Cardinality(ActiveKeys(u)) <= MAX_ACTIVE_API_KEYS

\* C15: for every operation among deposit, transfer and read, a bearer
\* credential is admitted, and an API key is admitted if and only if the
\* operation's permission is among the key's permissions; a request with a
\* key that lacks it is answered Forbidden naming that permission.
C15_KeyPermissionScoping ==
  [][\A op \in Operations :
        /\ (last'.req.op = op /\ last'.req.bearer \in {Some(Jwt(u)) : u \in Users})
              => last'.kind = "admitted"
        /\ \A k \in keys :
              (/\ last'.req.op = op
               /\ last'.req.bearer = Null
               /\ last'.req.key = Some(k.key_hash[2])
               /\ k.is_active
               /\ k.expires_at > now
               /\ k.key_prefix = LookupKeyPrefix(k.key_hash[2]))
                => IF op \in k.permissions
                   THEN last'.kind = "admitted"
                   ELSE /\ last'.kind = "Forbidden"
                        /\ last'.req.detail = Some(<<"Insufficient permissions", op>>)]_vars

\* C16: every successful transfer of amount A creates exactly two transaction
\* rows, both of type TRANSFER and status SUCCESS with a settlement timestamp:
\* one on the sender's wallet with amount -A and one on the recipient's wallet
\* with amount +A, and the two rows carry different references.
C16_TransferWritesTwoRows ==
  [][(last'.req.op = "transfer" /\ last'.kind = "ok")
        => LET created == txs' \ txs
               A == last'.req.amount
           IN /\ txs \subseteq txs'
              /\ Cardinality(created) = 2
              /\ \A t \in created :
                    t.type = TRANSFER /\ t.status = SUCCESS /\ t.paid_at # Null
              /\ \E d \in created, c \in created :
                    /\ d.wallet \in WalletByUser(last'.req.user)
                    /\ d.amount = 0 - A
                    /\ c.wallet \in WalletByNumber(last'.req.to)
                    /\ c.amount = A
                    /\ d.ref # c.ref
                    /\ d.id # c.id]_vars

C16_Witness ==
  /\ last.req.op = "transfer"
  /\ last.kind = "ok"
  /\ last.req.amount = MaxAmount
  /\ Cardinality({t \in txs : t.type = TRANSFER /\ t.status = SUCCESS
                                /\ t.paid_at = Some(now)}) = 2

\* C17: in every reachable state no two transactions, of any type, share a
\* reference, every deposit reference starts with "dep_" and every transfer
\* reference with "xfer_"; and an insert whose reference a row already
\* carries is rejected and leaves that row as it was.
C17_ReferencesUnique ==
  /\ [](/\ \A t1 \in txs, t2 \in txs : t1.ref = t2.ref => t1 = t2
        /\ \A t \in txs : /\ t.type = DEPOSIT => t.ref[1] = "dep_"
                          /\ t.type = TRANSFER => t.ref[1] = "xfer_")
  /\ [][(/\ last'.req.op = "deposit"
         /\ last'.req.ref # Null
         /\ pc' = pc
         /\ UniqueViolation(txs, last'.req.ref))
          => last'.kind = "StoreUnavailable" /\ txs' = txs]_vars

C17_Witness ==
  /\ last.req.op = "deposit"
  /\ last.kind = "StoreUnavailable"
  /\ \A s \in Sessions : pc[s] = "idle"
  /\ \E t \in txs : t.ref = last.req.ref /\ t.status = SUCCESS
  /\ \E t \in txs : t.type = TRANSFER

\* C18: a validly signed confirmation whose reference matches no transaction
\* is a no-op: it is acknowledged at once, no transaction is created, no
\* balance and no status changes, and no credit is started for it.
C18_UnknownReferenceNoOp ==
  [][/\ \A s \in Sessions :
          (pc[s] = "idle" /\ pc'[s] = "credit") => TxByRef(req'[s].ref) # {}
     /\ (/\ last'.req.op = "webhook"
         /\ last'.req.sig = Some("good")
         /\ pc' = pc
         /\ TxByRef(last'.req.ref) = {})
          => /\ last'.kind = "ack"
             /\ txs' = txs
             /\ balance' = balance
             /\ nextId' = nextId]_vars

C18_Witness ==
  /\ last.req.op = "webhook"
  /\ last.req.event = Some("charge.success")
  /\ last.req.sig = Some("good")
  /\ last.kind = "ack"
  /\ last.req.ref # Null
  /\ last.req.ref[1] = "dep_"
  /\ TxByRef(last.req.ref) = {}
  /\ \E t \in txs : t.type = DEPOSIT /\ t.status = PENDING

\* C19: the amount credited on confirmation is the deposit transaction's own
\* stored amount: whatever confirmed amount the event carries, also one that
\* differs from the stored amount, the credit raises the wallet's balance by
\* exactly the stored amount and no other balance changes.
C19_StoredAmountCredited ==
  [][\A s \in Sessions, paid \in ConfirmedAmounts :
        (CreditStep(s) /\ last'.req.amount = paid /\ balance' # balance)
          => \E t \in LoadedRow(s) :
                /\ t.ref = req[s].ref
                /\ balance'[t.wallet] - balance[t.wallet] = t.amount
                /\ \A w \in Wallets \ {t.wallet} : balance'[w] = balance[w]]_vars

\* A confirmation that carried more than the deposit's amount has settled it,
\* and the wallet holds the deposit's amount.
C19_Witness ==
  \E t \in txs :
    /\ t.type = DEPOSIT
    /\ t.status = SUCCESS
    /\ last.req.op = "webhook"
    /\ last.req.ref = t.ref
    /\ last.req.amount > t.amount
    /\ last.kind = "ack"
    /\ t.paid_at = Some(now)
    /\ balance[t.wallet] = t.amount
    /\ Cardinality(txs) = 1

C21_BadRecipientRejected ==
  [][\A s \in Sessions :
        (/\ pc[s] = "lock_recipient"
         /\ pc'[s] # "lock_recipient"
         /\ \A w \in WalletByUser(req[s].user) : req[s].amount <= balance[w]
         /\ \/ WalletByNumber(req[s].to) = {}
            \/ WalletByNumber(req[s].to) = WalletByUser(req[s].user))
          => /\ pc'[s] = "idle"
             /\ last'.req = req[s]
             /\ last'.kind # "StoreUnavailable" =>
                  last'.kind = (IF WalletByNumber(req[s].to) = {}
                                THEN "NotFound" ELSE "InvalidOperation")
             /\ balance' = balance
             /\ txs' = txs
             /\ nextId' = nextId]_vars

\* A transfer within the sender's balance to a number no wallet carries was
\* answered NotFound.
C21_Witness ==
  /\ last.req.op = "transfer"
  /\ last.kind = "NotFound"
  /\ last.req.to = NoSuchNumber
  /\ \E w \in WalletByUser(last.req.user) :
       0 < last.req.amount /\ last.req.amount <= balance[w]

\* C22: the preconditions of a transfer are checked before the balance check:
\* a transfer of any positive amount, also one above the sender's balance,
\* whose recipient number is the sender's own wallet is answered
\* InvalidOperation (unless the store fails).
C22_SameWalletBeforeBalance ==
  [][(/\ last'.req.op = "transfer"
      /\ last'.req.amount > 0
      /\ last'.req.to # Null
      /\ WalletByNumber(last'.req.to) = WalletByUser(last'.req.user)
      /\ last'.kind # "StoreUnavailable")
        => last'.kind = "InvalidOperation"]_vars

\* C23: a principal never reads or changes another principal's resource:
\* deposit status and deposit verify for a reference whose deposit someone
\* else owns, and rollover or revoke of an API key someone else owns, are
\* answered NotFound, return nothing of the resource and leave it unchanged.
C23_OthersResourceNotFound ==
  [][/\ (/\ last'.req.op \in {"status", "verify"}
         /\ last'.kind # "Forbidden"
         /\ \E t \in txs : t.ref = last'.req.ref /\ t.user # last'.req.user)
          => /\ last'.kind = "NotFound"
             /\ last'.req.detail = Null
             /\ txs' = txs
             /\ balance' = balance
     /\ (/\ last'.req.op \in {"rollover", "revoke"}
         /\ \E k \in keys : Some(k.id) = last'.req.ref /\ k.user # last'.req.user)
          => /\ last'.kind = "NotFound"
             /\ last'.req.key = Null
             /\ keys' = keys
             /\ nextKey' = nextKey]_vars

\* The status of another user's settled deposit was asked for and not found,
\* while that user holds an expired key.
C23_Witness ==
  /\ last.req.op = "status"
  /\ last.kind = "NotFound"
  /\ \E t \in txs : /\ t.ref = last.req.ref
                    /\ t.user # last.req.user
                    /\ t.type = DEPOSIT
                    /\ t.status = SUCCESS
  /\ \E k \in keys : k.user # last.req.user /\ k.expires_at <= now

\* C24: authenticating with an API key that is inactive, or whose expiry time
\* is not after the current time, always fails with Forbidden and never
\* yields a principal, whatever permissions the key holds.
C24_DeadKeyForbidden ==
  [][\A k \in keys :
        (/\ last'.req.op = "authenticate"
         /\ last'.req.key = Some(k.key_hash[2])
         /\ (~k.is_active \/ k.expires_at <= now))
          => /\ last'.kind = "Forbidden"
             /\ last'.req.user = 0
             /\ last'.req.perms = {}]_vars

\* C25: a successful rollover sets the source key inactive and creates exactly
\* one new active key owned by the same principal, with the same name and the
\* same permission set as the source key and an expiry in the future; every
\* other key is left as it was.
C25_RolloverReplacesKey ==
  [][(last'.req.op = "rollover" /\ last'.kind = "ok")
        => \E source \in keys :
              /\ Some(source.id) = last'.req.ref
              /\ source.user = last'.req.user
              /\ [source EXCEPT !.is_active = FALSE] \in keys'
              /\ keys \ {source} \subseteq keys'
              /\ LET created == {k \in keys' : \A x \in keys : x.id # k.id}
                 IN /\ Cardinality(created) = 1
                    /\ Cardinality(keys') = Cardinality(keys) + 1
                    /\ \A k \in created :
                          /\ k.is_active
                          /\ k.user = source.user
                          /\ k.name = source.name
                          /\ k.permissions = source.permissions
                          /\ k.expires_at > now
                          /\ Some(k.key_hash[2]) = last'.req.key]_vars

\* A key with the permission read alone was rolled over after it expired.
C25_Witness ==
  /\ last.req.op = "rollover"
  /\ last.kind = "ok"
  /\ \E old \in keys, new \in keys :
       /\ Some(old.id) = last.req.ref
       /\ ~old.is_active
       /\ old.expires_at <= now
       /\ old.permissions = {"read"}
       /\ new.id # old.id
       /\ new.is_active
       /\ new.permissions = {"read"}
       /\ new.expires_at > now

\* C26: rollover of a key whose expiry time is still in the future is
\* rejected, and the rejection changes nothing: the source key stays as it is
\* and no new key is created.
C26_RolloverBeforeExpiryRejected ==
  [][(/\ last'.req.op = "rollover"
      /\ \E source \in keys : /\ Some(source.id) = last'.req.ref
                              /\ source.user = last'.req.user
                              /\ source.expires_at > now)
        => /\ last'.kind = "NotExpired"
           /\ last'.req.key = Null
           /\ keys' = keys
           /\ nextKey' = nextKey]_vars

\* The rollover of an active key that has not expired was rejected.
C26_Witness ==
  /\ last.req.op = "rollover"
  /\ last.kind = "NotExpired"
  /\ \E source \in keys : /\ Some(source.id) = last.req.ref
                          /\ source.user = last.req.user
                          /\ source.is_active
                          /\ source.expires_at > now
  /\ Cardinality(keys) = 1

\* A presented string from which a lookup prefix can be taken, and a key that
\* the lookup by prefix yields for it.
WellFormed(api_key) ==
  str_startswith(api_key, api_key_prefix \o <<"_">>) /\ Len(split(api_key, "_")) >= 3
SharesPrefix(k, api_key) == WellFormed(api_key) /\ k.key_prefix = LookupKeyPrefix(api_key)

\* C27: API-key authentication succeeds only when the hash of the whole
\* presented string equals the stored hash of a key: a presented string that
\* shares its index prefix with stored keys but matches none of their hashes
\* is rejected as Unauthenticated, and when several stored keys share a
\* prefix the one whose hash matches is the one selected.
C27_FullHashDecides ==
  [][last'.req.op = "authenticate" =>
       LET presented == last'.req.key[1]
       IN /\ last'.kind = "ok" =>
               \E k \in keys : /\ k.key_hash = hash_api_key(presented)
                               /\ last'.req.user = k.user
                               /\ last'.req.perms = k.permissions
          /\ (/\ \E k \in keys : SharesPrefix(k, presented)
              /\ \A k \in keys : k.key_hash # hash_api_key(presented))
                => last'.kind = "Unauthenticated"
          /\ \A k \in keys :
               (/\ SharesPrefix(k, presented)
                /\ k.key_hash = hash_api_key(presented)
                /\ k.is_active
                /\ k.expires_at > now)
                 => /\ last'.kind = "ok"
                    /\ last'.req.user = k.user
                    /\ last'.req.perms = k.permissions]_vars

\* Two keys of different users with different permissions share their index
\* prefix, and the one presented was resolved to its own user.
C27_Witness ==
  /\ last.req.op = "authenticate"
  /\ last.kind = "ok"
  /\ \E k1 \in keys, k2 \in keys :
       /\ k1.id # k2.id
       /\ k1.key_prefix = k2.key_prefix
       /\ k1.user # k2.user
       /\ k1.permissions # k2.permissions
       /\ k2.is_active /\ k2.expires_at > now
       /\ last.req.key = Some(k1.key_hash[2])
       /\ last.req.user = k1.user
       /\ last.req.perms = k1.permissions

\* C28: wallet balances and transaction statuses are changed only by deposit
\* confirmation and transfer: a step that changes a balance or the status of
\* an existing transaction is the credit of a confirmation or the commit of a
\* transfer; deposit initiation, deposit status, deposit verify, the balance
\* and history reads and every API-key operation change neither.
C28_OnlyLedgerEngineMutates ==
  [][(\/ balance' # balance
      \/ \E t \in txs, u \in txs' : t.id = u.id /\ t.status # u.status)
        => /\ last'.req.op \in {"webhook", "transfer"}
           /\ \E s \in Sessions : pc[s] \in {"credit", "commit"} /\ pc'[s] = "idle"]_vars

\* A verify for a deposit still PENDING, for which the gateway reports success,
\* has returned while the wallet of the caller, who holds a key, is empty and
\* another wallet is not.
C28_Witness ==
  /\ last.req.op = "verify"
  /\ last.kind = "ok"
  /\ \E t \in txs : /\ t.ref = last.req.ref
                    /\ t.status = PENDING
                    /\ last.req.detail = Some(DepositStatusResponse(t) \o <<"success">>)
                    /\ balance[t.wallet] = 0
  /\ \E w \in Wallets : balance[w] > 0
  /\ \E k \in keys : k.user = last.req.user

\* C29: no wallet and no transaction is ever deleted, except a PENDING deposit
\* whose gateway initialization failed: a step keeps every wallet, and a
\* transaction it removes is a deposit that was PENDING, removed by the
\* initiation that got the gateway's failure; a SUCCESS transaction is never
\* removed, however initiation and confirmation of one reference interleave.
C29_OnlyFailedPendingDeleted ==
  [][/\ DOMAIN balance' = DOMAIN balance
     /\ \A t \in txs :
          (~ \E u \in txs' : u.id = t.id) =>
             /\ t.type = DEPOSIT
             /\ t.status = PENDING
             /\ t.status # SUCCESS
             /\ last'.req.op = "deposit"
             /\ last'.kind = "GatewayUnavailable"]_vars

\* ------------------------------------------------------------ lock waits
\* Session s is at a SELECT ... FOR UPDATE of a wallet row that another
\* session holds: the credit at wallet_service.py 16-18, the transfer at its
\* recipient's row, lines 59-61. (The wait for the sender's row, lines 47-49,
\* holds nothing and has written nothing: the transfer has not begun.)
CreditWaits(s) ==
  /\ pc[s] = "credit"
  /\ \E w \in WalletById(The(loc[s].tx).wallet) : lock[w] \notin {0, s}
LockWait(s) == CreditWaits(s) \/ \E w \in Wallets : Waits(s, w)

\* Two sessions each wait for the row the other holds. The store finds the
\* cycle and fails the statement of one of them; the exception leaves
\* begin_nested and the request, whose transaction is rolled back.
Deadlocked_Undetected(s) == FALSE
Deadlocked(s) ==
  \E s2 \in Sessions \ {s}, w \in Wallets, w2 \in Wallets :
    /\ Waits(s, w) /\ lock[w] = s2
    /\ Waits(s2, w2) /\ lock[w2] = s
DeadlockVictim(s) == Deadlocked(s) /\ TransferAbort(s)

\* The ledger's writers with full permissions, valid signatures, one amount
\* and a gateway that answers well. A handler whose next statement can run does run: the event loop
\* resumes every coroutine whose awaited statement has completed, and a row
\* lock that is released goes to a session waiting for it. A deadlock is
\* broken by the store. No other failure is bound to happen.
NextLockWait ==
  \/ Deliver
  \/ \E s \in Sessions, u \in Users, n \in RefSuffixes :
        InitiateDeposit(s, u, ApiKeyPermissions, MaxDepositAmount, n)
  \/ \E s \in Sessions : DepositGateway(s, "ok")
  \/ \E s \in Sessions, reference \in References :
        PaystackWebhook(s, "charge.success", reference, "good")
  \/ \E s \in Sessions : CreditWallet(s, MaxDepositAmount)
  \/ \E s \in Sessions, u \in Users, to \in WalletNumbers :
        TransferWalletFunds(s, u, ApiKeyPermissions, to, MaxDepositAmount)
  \/ \E s \in Sessions, n1 \in RefSuffixes, n2 \in RefSuffixes :
        TransferLockRecipient(s, n1, n2)
  \/ \E s \in Sessions : TransferCommit(s)
  \/ \E s \in Sessions : TransferAbort(s)

FairLockWait ==
  /\ WF_vars(Deliver)
  /\ \A s \in Sessions :
       /\ SF_vars(DepositGateway(s, "ok"))
       /\ SF_vars(CreditWallet(s, MaxDepositAmount))
       /\ SF_vars(\E n1 \in RefSuffixes, n2 \in RefSuffixes : TransferLockRecipient(s, n1, n2))
       /\ SF_vars(TransferCommit(s))
       /\ SF_vars(DeadlockVictim(s))

SpecLockWait == Init /\ [][NextLockWait]_vars /\ FairLockWait

GoogleIds == 1..MaxIdentities
Emails == 1..MaxIdentities
NewWalletNumbers == {wallet_number(n) : n \in 1..MaxIdentities}
GoogleOutcomes == {"ok", "http_error", "incomplete"}
SignInReq(google_id, email) ==
  [NoReq EXCEPT !.op = "signin", !.google_id = Some(google_id), !.email = Some(email)]

\* models.py: the unique indexes on users.google_id (line 39), users.email
\* (line 36) and wallets.wallet_number (line 53), as the commit meets them. A
\* variant of the first without the index.
GoogleIdTaken_NoIndex(rows, google_id) == FALSE
GoogleIdTaken(rows, google_id) == \E u \in rows : u.google_id = google_id
EmailTaken(rows, id, email) == \E u \in rows : u.id # id /\ u.email = email
NumberTaken(rows, number) == \E w \in rows : w.wallet_number = number

\* Lines 50-92: the code is required, Google is asked for the identity, and
\* the user is looked up by google_id.
GoogleCallback(s, code, outcome, google_id, email) ==
  /\ last = NoResp
  /\ pc[s] = "idle"
  /\ UNCHANGED <<balance, txs, nextId, now, keys, nextKey, users, wallets>>
  /\ IF code = Null
     THEN Finish(s, Refused("signin", 0), "BadRequest")
     ELSE IF outcome = "http_error"
     THEN Finish(s, Refused("signin", 0), "GatewayUnavailable")
     ELSE IF outcome = "incomplete"
     THEN Finish(s, Refused("signin", 0), "InternalError")
     ELSE /\ pc' = [pc EXCEPT ![s] = "signin"]
          /\ req' = [req EXCEPT ![s] = SignInReq(google_id, email)]
          /\ loc' = [loc EXCEPT ![s] =
               [NoLoc EXCEPT !.user = {u \in users : u.google_id = google_id}]]
          /\ last' = NoResp
          /\ UNCHANGED lock

\* Lines 94-130: the user found is updated, or a user and its wallet are
\* added; one commit writes them, and a unique index that rejects a row fails
\* the whole commit (the handler's `except Exception` answers 500). The new
\* rows' primary keys are fresh uuid4 values.
GoogleCallbackCommit(s, number) ==
  /\ last = NoResp
  /\ pc[s] = "signin"
  /\ UNCHANGED <<txs, nextId, now, keys, nextKey>>
  /\ LET google_id == req[s].google_id[1]
         email == req[s].email[1]
         user == loc[s].user
         id == Cardinality(users) + 1
         wallet_id == Cardinality(wallets) + 1
     IN IF user # {}
        THEN /\ UNCHANGED <<balance, wallets>>
             /\ IF EmailTaken(users, The(user).id, email)
                THEN UNCHANGED users /\ Finish(s, req[s], "StoreUnavailable")
                ELSE /\ users' = {IF u.id = The(user).id
                                  THEN [u EXCEPT !.email = email] ELSE u : u \in users}
                     /\ Finish(s, [req[s] EXCEPT !.user = The(user).id,
                                     !.bearer = Some(Jwt(The(user).id))], "ok")
        ELSE IF \/ GoogleIdTaken(users, google_id)
                \/ EmailTaken(users, id, email)
                \/ NumberTaken(wallets, number)
        THEN UNCHANGED <<balance, users, wallets>> /\ Finish(s, req[s], "StoreUnavailable")
        ELSE /\ users' = users \cup {UserRow(id, google_id, email)}
             /\ wallets' = wallets \cup {WalletRow(wallet_id, id, number)}
             /\ balance' = [w \in DOMAIN balance \cup {wallet_id} |->
                              IF w = wallet_id THEN 0 ELSE balance[w]]
             /\ Finish(s, [req[s] EXCEPT !.user = id, !.bearer = Some(Jwt(id))], "ok")

\* The store before anybody has signed in.
InitSignIn ==
  /\ balance = [w \in {} |-> 0]
  /\ txs = {}
  /\ nextId = 1
  /\ lock = [w \in Wallets |-> 0]
  /\ now = 0
  /\ pc = [s \in Sessions |-> "idle"]
  /\ req = [s \in Sessions |-> NoReq]
  /\ loc = [s \in Sessions |-> NoLoc]
  /\ last = NoResp
  /\ keys = {}
  /\ nextKey = 1
  /\ users = {}
  /\ wallets = {}

NextSignIn ==
  \/ Deliver
  \/ \E s \in Sessions, code \in {Null, Some("code")}, outcome \in GoogleOutcomes,
        google_id \in GoogleIds, email \in Emails :
        GoogleCallback(s, code, outcome, google_id, email)
  \/ \E s \in Sessions, number \in NewWalletNumbers : GoogleCallbackCommit(s, number)

SpecSignIn == InitSignIn /\ [][NextSignIn]_vars

\* C31: the first sign-in of an identity creates the user and exactly one
\* wallet, with balance 0 and a number no other wallet has, in one step; in
\* every state each user has exactly one wallet and each wallet exactly one
\* owner, and no identity has two users, however sign-ins repeat or overlap.
C31_OneWalletPerUser ==
  /\ [](/\ \A u \in users : Cardinality({w \in wallets : w.user_id = u.id}) = 1
        /\ \A w \in wallets : Cardinality({u \in users : u.id = w.user_id}) = 1
        /\ \A u \in users, v \in users : u.google_id = v.google_id => u = v
        /\ \A w \in wallets, x \in wallets : w.wallet_number = x.wallet_number => w = x
        /\ DOMAIN balance = {w.id : w \in wallets})
  /\ [][/\ \A w \in wallets : w \in wallets'
        /\ {u.id : u \in users'} \ {u.id : u \in users} # {} =>
             \E u \in users', w \in wallets' :
               /\ users' = users \cup {u}
               /\ wallets' = wallets \cup {w}
               /\ w \notin wallets
               /\ w.user_id = u.id
               /\ balance'[w.id] = 0
               /\ last'.kind = "ok"
               /\ last'.req.google_id = Some(u.google_id)
               /\ last'.req.user = u.id
               /\ \A v \in users : v.google_id # u.google_id
        /\ (last'.kind = "ok" /\ last'.req.op = "signin") =>
             \E u \in users' : u.google_id = last'.req.google_id[1] /\ u.id = last'.req.user
        /\ \A s \in Sessions :
             (pc[s] = "signin" /\ pc'[s] = "idle"
                /\ \E v \in users : Some(v.google_id) = req[s].google_id) =>
               {u.id : u \in users'} = {u.id : u \in users} /\ wallets' = wallets]_vars

\* Two identities have signed in, and a sign-in of one of them that overlapped
\* with the one that created its user has failed at its commit: the identity
\* has its one user, and the e-mail was free.
C31_Witness ==
  /\ last.req.op = "signin"
  /\ last.kind = "StoreUnavailable"
  /\ Cardinality(users) = 2
  /\ \E u \in users : /\ Some(u.google_id) = last.req.google_id
                      /\ Some(u.email) = last.req.email

\* ------------------------------------------------- a deposit without wallet
\* The anomaly credit_wallet lines 21-26 guard against: a PENDING deposit
\* whose wallet_id matches no wallet row. (The foreign key and the absence of
\* any DELETE of wallets keep the handlers from producing it; it is given.)
NoWallet == 0
InitOrphan ==
  /\ balance = [w \in Wallets |-> 0]
  /\ txs = {[NewDeposit(1, Min(Users), MaxDepositAmount, DepRef(1)) EXCEPT !.wallet = NoWallet]}
  /\ nextId = 2
  /\ lock = [w \in Wallets |-> 0]
  /\ now = 0
  /\ pc = [s \in Sessions |-> "idle"]
  /\ req = [s \in Sessions |-> NoReq]
  /\ loc = [s \in Sessions |-> NoLoc]
  /\ last = NoResp
  /\ keys = {}
  /\ nextKey = 1
  /\ users = {UserRow(u, u, u) : u \in Users}
  /\ wallets = {WalletRow(w, w, wallet_number(w)) : w \in Wallets}

NextOrphan ==
  \/ Deliver
  \/ Tick
  \/ \E s \in Sessions, u \in Users, n \in RefSuffixes :
        InitiateDeposit(s, u, ApiKeyPermissions, MaxDepositAmount, n)
  \/ \E s \in Sessions, outcome \in GatewayOutcomes : DepositGateway(s, outcome)
  \/ \E s \in Sessions, event \in Events, reference \in {t.ref : t \in txs},
        header \in HeaderKinds : PaystackWebhook(s, event, reference, header)
  \/ \E s \in Sessions, paid \in ConfirmedAmounts : CreditWallet(s, paid)

SpecOrphan == InitOrphan /\ [][NextOrphan]_vars

\* C32: when the wallet of a PENDING deposit cannot be found at confirmation
\* time, the credit sets the transaction to FAILED with a diagnostic
\* description and commits that, changes no balance and no other row, and the
\* webhook answers its normal acknowledgement.
C32_MissingWalletMarksFailed ==
  [][\A s \in Sessions :
       (/\ pc[s] = "credit"
        /\ pc'[s] = "idle"
        /\ WalletById(The(loc[s].tx).wallet) = {}) =>
          /\ balance' = balance
          /\ last'.kind = "ack"
          /\ \E t \in txs :
               /\ t.id = The(loc[s].tx).id
               /\ txs' = (txs \ {t}) \cup
                    {[t EXCEPT !.status = FAILED,
                               !.description = <<"Failed: Wallet not found.">>]}]_vars

\* The confirmation of the deposit without wallet has been acknowledged: the
\* deposit is FAILED with the diagnostic and was never paid, every balance is 0.
C32_Witness ==
  /\ last.req.op = "webhook"
  /\ last.kind = "ack"
  /\ \E t \in txs :
       /\ t.ref = last.req.ref
       /\ t.wallet = NoWallet
       /\ t.status = FAILED
       /\ t.description = <<"Failed: Wallet not found.">>
       /\ t.paid_at = Null
  /\ \A w \in Wallets : balance[w] = 0

\* ------------------------------------------------ key management requests
\* routers/keys.py: each handler depends on get_current_user_with_permissions
\* (lines 42, 89, 143, 170) and runs for the user it yields, whatever the
\* credential was; a request it refuses never reaches the handler.
KeyOperations == {"create_key", "rollover", "list_keys", "revoke"}
KeyManagement(s, op, authorization, x_api_key, key_id, random_part) ==
  LET result == Authenticate(authorization, x_api_key)
  IN IF result.kind # "ok"
     THEN /\ last = NoResp
          /\ pc[s] = "idle"
          /\ UNCHANGED <<balance, txs, nextId, now, keys, nextKey, users, wallets>>
          /\ Finish(s, Answered([NoReq EXCEPT !.op = op, !.bearer = authorization,
                                              !.key = x_api_key], result), result.kind)
     ELSE IF op = "create_key"
     THEN CreateApiKey(s, result.user, "ci", ApiKeyPermissions, 1, MaxKeys)
     ELSE IF op = "rollover"
     THEN RolloverApiKey(s, result.user, key_id, 1, random_part, MaxKeys)
     ELSE IF op = "list_keys"
     THEN ListApiKeys(s, result.user)
     ELSE RevokeApiKey(s, result.user, key_id)

\* The credentials worth presenting: as bearer token a user's JWT, something
\* that is no JWT, or an issued API key; as X-API-Key an issued key or a
\* string that is no key.
BearerHeaders == {Null} \cup {Some(t) : t \in BearerTokens \cup IssuedKeys}
ApiKeyHeaders == {Null} \cup {Some(k) : k \in IssuedKeys \cup {<<"x">>}}

NextKeyManagement ==
  \/ Deliver
  \/ Tick
  \/ \E s \in KeySessions, op \in KeyOperations, authorization \in BearerHeaders,
        x_api_key \in ApiKeyHeaders, key_id \in 1..nextKey,
        random_part \in token_urlsafe({"plain"}) :
        KeyManagement(s, op, authorization, x_api_key, key_id, random_part)
  \/ \E s \in KeySessions, random_part \in token_urlsafe({"plain"}) :
        InsertApiKey(s, random_part)

SpecKeyManagement == Init /\ [][NextKeyManagement]_vars

\* C33: API-key management requires bearer (JWT) authentication: whatever
\* headers a request carries, it is admitted only with a bearer token that is
\* a user's JWT, and as that user; a key-management request without one, be
\* its API key ever so valid, is refused and changes no key.
C33_KeyManagementNeedsJwt ==
  /\ [](\A authorization \in BearerHeaders, x_api_key \in ApiKeyHeaders :
          Authenticate(authorization, x_api_key).kind = "ok" =>
            \E u \in Users : /\ authorization = Some(Jwt(u))
                             /\ Authenticate(authorization, x_api_key).user = u)
  /\ [][(keys' # keys \/ \E s \in Sessions : pc[s] = "idle" /\ pc'[s] = "create_key") =>
          /\ \A x_api_key \in ApiKeyHeaders : Authenticate(Null, x_api_key).kind # "ok"
          /\ \E s \in Sessions :
               LET u == IF pc'[s] = "create_key" THEN req'[s].user
                        ELSE IF pc[s] = "create_key" THEN req[s].user
                        ELSE last'.req.user
               IN Authenticate(Some(Jwt(u)), Null).kind = "ok"]_vars
  /\ [][(last'.req.op \in KeyOperations /\ last'.req.bearer \notin {Some(Jwt(u)) : u \in Users}
           /\ last'.kind \in {"NotAuthenticated", "Unauthenticated", "Forbidden"}) =>
          keys' = keys /\ nextKey' = nextKey]_vars

\* A request to create a key that carried a valid, active, unexpired API key
\* and no bearer token has been refused.
C33_Witness ==
  /\ last.req.op = "create_key"
  /\ last.req.bearer = Null
  /\ last.req.key # Null
  /\ last.kind = "NotAuthenticated"
  /\ get_user_from_api_key(last.req.key[1]).kind = "ok"

\* C34: a request that carries an API key is judged by that key even when it
\* also carries a bearer token that is not a valid JWT: with an expired key
\* the answer is Forbidden "API key has expired", with an inactive key
\* Forbidden "API key is inactive", and with a key lacking the operation's
\* permission Forbidden naming that permission.
C34_KeyJudgedDespiteBadBearer ==
  [][\A k \in keys :
       (/\ last'.req.op \in Operations
        /\ last'.req.bearer = Some(BadToken)
        /\ last'.req.key = Some(k.key_hash[2])
        /\ k.key_prefix = LookupKeyPrefix(k.key_hash[2])) =>
          /\ ~ k.is_active =>
               last'.kind = "Forbidden" /\ last'.req.detail = Some("API key is inactive")
          /\ (k.is_active /\ k.expires_at <= now) =>
               last'.kind = "Forbidden" /\ last'.req.detail = Some("API key has expired")
          /\ (k.is_active /\ k.expires_at > now /\ last'.req.op \notin k.permissions) =>
               /\ last'.kind = "Forbidden"
               /\ last'.req.detail = Some(<<"Insufficient permissions", last'.req.op>>)]_vars

\* C35: a wallet's balance decreases only through a transfer initiated by the
\* wallet's own authenticated owner: a step that lowers a wallet's balance is
\* the commit of a transfer whose caller owns that wallet, it lowers it by the
\* amount requested, and it lowers no other wallet's balance.
C35_OnlyOwnerDebits ==
  [][\A w \in Wallets :
       balance'[w] < balance[w] =>
         /\ last'.req.op = "transfer"
         /\ last'.kind = "ok"
         /\ WalletByUser(last'.req.user) = {w}
         /\ balance'[w] = balance[w] - last'.req.amount
         /\ \A s \in Sessions : pc'[s] # pc[s] => req[s] = last'.req]_vars

\* A transfer has been answered ok: its caller's wallet carries the debit row
\* and is empty, the other wallet holds what was sent.
C35_Witness ==
  /\ last.req.op = "transfer"
  /\ last.kind = "ok"
  /\ \E w \in WalletByUser(last.req.user) :
       /\ balance[w] = 0
       /\ \E t \in txs : t.wallet = w /\ t.type = TRANSFER /\ t.amount = 0 - last.req.amount
       /\ \E x \in Wallets \ {w} : balance[x] >= last.req.amount /\ last.req.to = wallet_number(x)

\* C36: deactivation of an API key is permanent: no step sets a key's
\* is_active from false back to true (the row stays, inactive), and every
\* authentication attempt that presents an inactive key and is not carried by
\* a valid JWT fails: it yields no principal and the request is not admitted.
C36_DeactivationPermanent ==
  [][\A k \in keys :
        ~k.is_active =>
          /\ \E x \in keys' : x.id = k.id
          /\ \A x \in keys' : x.id = k.id => ~x.is_active
          /\ (/\ last'.req.op \in {"authenticate"} \cup Operations
              /\ last'.req.key = Some(k.key_hash[2])
              /\ last'.req.bearer \notin {Some(Jwt(u)) : u \in Users})
               => /\ last'.kind \notin {"ok", "admitted"}
                  /\ last'.req.user = 0
                  /\ last'.req.perms = {}]_vars

\* A key that was rolled over after its expiry, and whose replacement is
\* active and unexpired, was presented and refused; a revoked key that has not
\* expired is on record too.
C36_Witness ==
  /\ last.req.op = "authenticate"
  /\ last.kind = "Forbidden"
  /\ last.req.detail = Some("API key is inactive")
  /\ \E old \in keys, new \in keys :
       /\ last.req.key = Some(old.key_hash[2])
       /\ ~old.is_active
       /\ new.id > old.id
       /\ new.user = old.user
       /\ new.is_active
       /\ new.expires_at > now
  /\ \E k \in keys : ~k.is_active /\ k.expires_at > now

\* C37: rollover does not depend on the source key's is_active flag: a
\* rollover of an owned key past its expiry, whether the key is active,
\* revoked or already rolled over, is never turned away as not found or not
\* expired, and when it is answered it has created exactly one more key, new
\* and active, and left the source inactive.
C37_RolloverIgnoresIsActive ==
  [][\A source \in keys :
        (/\ last'.req.op = "rollover"
         /\ last'.req.ref = Some(source.id)
         /\ last'.req.user = source.user
         /\ source.expires_at <= now)
          => /\ last'.kind \in {"ok", "StoreUnavailable"}
             /\ last'.kind = "StoreUnavailable" => keys' = keys
             /\ last'.kind = "ok" =>
                  LET created == {k \in keys' : \A x \in keys : x.id # k.id}
                  IN /\ Cardinality(created) = 1
                     /\ Cardinality(keys') = Cardinality(keys) + 1
                     /\ \A k \in created : /\ k.is_active
                                           /\ k.user = source.user
                                           /\ k.expires_at > now
                                           /\ Some(k.key_hash[2]) = last'.req.key
                     /\ \A x \in keys' : x.id = source.id => ~x.is_active]_vars

\* An answered rollover named an expired key that is inactive, and its owner
\* holds two later keys, both unexpired, the newer one active and returned by
\* this rollover.
C37_Witness ==
  /\ last.req.op = "rollover"
  /\ last.kind = "ok"
  /\ \E source \in keys, first \in keys, second \in keys :
       /\ last.req.ref = Some(source.id)
       /\ ~source.is_active
       /\ source.expires_at <= now
       /\ source.id < first.id
       /\ first.id < second.id
       /\ first.user = source.user
       /\ second.user = source.user
       /\ first.expires_at > now
       /\ second.is_active
       /\ second.expires_at > now
       /\ last.req.key = Some(second.key_hash[2])
       /\ Cardinality({k \in keys : k.user = source.user}) = 3

\* C38: the three expiry checks agree at every instant: a key with
\* expires_at > now counts toward the ceiling when it is active, authenticates
\* when it is active and presented, and is refused rollover; a key with
\* expires_at <= now does not count, does not authenticate and is not refused
\* rollover; so no key can both authenticate and be rolled over at one instant.
C38_ExpiryChecksAgree ==
  [][\A k \in keys :
        LET presented == last'.req.op = "authenticate" /\ last'.req.key = Some(k.key_hash[2])
            rolled == /\ last'.req.op = "rollover"
                      /\ last'.req.ref = Some(k.id)
                      /\ last'.req.user = k.user
        IN IF k.expires_at > now
           THEN /\ k.is_active => k \in ActiveKeys(k.user)
                /\ (presented /\ k.is_active)
                     => last'.kind = "ok" /\ last'.req.user = k.user
                /\ rolled => last'.kind = "NotExpired"
           ELSE /\ k \notin ActiveKeys(k.user)
                /\ presented => last'.kind # "ok"
                /\ rolled => last'.kind \in {"ok", "StoreUnavailable"}]_vars

\* C39: every TRANSFER transaction, staged or stored, has status SUCCESS and
\* every PENDING transaction is a DEPOSIT; a stored TRANSFER row is the same
\* row after every step; and no delivery to the webhook that carries a
\* transfer's reference reaches the credit or changes a balance or a row: the
\* credit only ever works on a DEPOSIT.
C39_TransfersNeverPending ==
  /\ [](\A t \in txs \cup StagedRows :
          /\ t.type = TRANSFER => t.status = SUCCESS
          /\ t.status = PENDING => t.type = DEPOSIT)
  /\ [][/\ \A t \in txs : t.type = TRANSFER => t \in txs'
        /\ \A s \in Sessions :
              pc'[s] = "credit" => /\ The(loc'[s].tx).type = DEPOSIT
                                   /\ \A t \in txs : t.type = TRANSFER => t.ref # req'[s].ref
        /\ (/\ last'.req.op = "webhook"
            /\ \E t \in txs : t.type = TRANSFER /\ t.ref = last'.req.ref)
             => /\ last'.kind \in {"ack", "MissingSignature", "InvalidSignature"}
                /\ balance' = balance
                /\ txs' = txs]_vars

\* A validly signed charge.success that carries the reference of the credit
\* leg of a transfer was acknowledged, and the recipient's wallet holds the
\* transferred amount once.
C39_Witness ==
  /\ last.req \in Confirmations(last.req.ref)
  /\ last.kind = "ack"
  /\ \E t \in txs :
       /\ t.type = TRANSFER
       /\ t.ref = last.req.ref
       /\ t.amount > 0
       /\ t.status = SUCCESS
       /\ balance[t.wallet] = t.amount
       /\ Cardinality({x \in txs : x.wallet = t.wallet}) = 1

====
